---------------------------- MODULE Spec2Model ----------------------------
(***************************************************************************)
(* Wiskoro chatbot backend (src/main.py): the POST /chat request path      *)
(* (rate limiter, in-domain test, cache lookup, blocking call to the       *)
(* completion service, answer validation, shaping, cache store), the       *)
(* LocalCache and the periodic cache sweep, run by one asyncio event loop. *)
(*                                                                         *)
(* Text is a sequence of code points; a code point is a one-character      *)
(* string, a non-ASCII one is written "Uxxxx".  Time is kept as ages:      *)
(* where the source stores t0 = time.time() and later tests                *)
(* time.time() - t0 < W, the model stores the age time.time() - t0,        *)
(* advanced by the clock and saturated above every window W.               *)
(***************************************************************************)
EXTENDS Integers, Sequences, FiniteSets, TLC

(***************************************************************************)
(* Settings and tables                                                     *)
(***************************************************************************)
AI_TIMEOUT == 10

CACHE_EXPIRATION == 3600

MAX_RESPONSE_LENGTH == 200

WINDOW_SIZE == 3600

MAX_REQUESTS == 50

SWEEP_INTERVAL == 300

MIN_LENGTH == 1

MAX_LENGTH == 500
MATH_CONTEXTS ==
  <<
    [context |-> "basis", keywords |-> <<
        <<"o", "p", "t", "e", "l", "l", "e", "n">>,
        <<"a", "f", "t", "r", "e", "k", "k", "e", "n">>,
        <<"p", "l", "u", "s">>,
        <<"m", "i", "n">>,
        <<"+">>,
        <<"-">> >>],
    [context |-> "vermenigvuldigen", keywords |-> <<
        <<"k", "e", "e", "r">>,
        <<"m", "a", "a", "l">>,
        <<"*">>,
        <<"U00D7">>,
        <<"v", "e", "r", "m", "e", "n", "i", "g", "v", "u", "l", "d", "i", "g">> >>],
    [context |-> "delen", keywords |-> <<
        <<"d", "e", "l", "e", "n">>,
        <<"g", "e", "d", "e", "e", "l", "d">>,
        <<"/">>,
        <<"U00F7">> >>],
    [context |-> "breuken", keywords |-> <<
        <<"b", "r", "e", "u", "k">>,
        <<"n", "o", "e", "m", "e", "r">>,
        <<"t", "e", "l", "l", "e", "r">>,
        <<"/">> >>],
    [context |-> "procenten", keywords |-> <<
        <<"p", "r", "o", "c", "e", "n", "t">>,
        <<"%">>,
        <<"p", "e", "r", "c", "e", "n", "t", "a", "g", "e">> >>],
    [context |-> "meetkunde", keywords |-> <<
        <<"o", "p", "p", "e", "r", "v", "l", "a", "k", "t", "e">>,
        <<"o", "m", "t", "r", "e", "k">>,
        <<"v", "o", "l", "u", "m", "e">>,
        <<"h", "o", "e", "k">>,
        <<"d", "r", "i", "e", "h", "o", "e", "k">>,
        <<"v", "i", "e", "r", "k", "a", "n", "t">>,
        <<"c", "i", "r", "k", "e", "l">> >>],
    [context |-> "vergelijkingen", keywords |-> <<
        <<"v", "e", "r", "g", "e", "l", "i", "j", "k", "i", "n", "g">>,
        <<"=">>,
        <<"x">>,
        <<"y">>,
        <<"o", "n", "b", "e", "k", "e", "n", "d", "e">> >>]
  >>

ERROR_MESSAGES ==
  [ timeout |->
      <<"Y", "o", " ", "d", "e", "z", "e", " ", "s", "o", "m", " ", "d", "u", "u", "r", "t", " ", "t", "e", " ", "l", "a", "n", "g", " ", "f", "a", "m", "!", " ", "P", "r", "o", "b", "e", "e", "r", " ", "h", "e", "t", " ", "n", "o", "g", " ", "e", "e", "n", " ", "k", "e", "e", "r", " ", "U23F3">>,
    service |->
      <<"F", "f", " ", "c", "h", "i", "l", "l", "e", "n", ",", " ", "b", "e", "n", " ", "z", "o", " ", "b", "a", "c", "k", "!", " ", "U1F527">>,
    non_math |->
      <<"Y", "o", "!", " ", "I", "k", " ", "h", "e", "l", "p", " ", "a", "l", "l", "e", "e", "n", " ", "m", "e", "t", " ", "w", "i", "s", "k", "u", "n", "d", "e", " ", "e", "n", " ", "r", "e", "k", "e", "n", "e", "n", "!", " ", "U1F9EE">>,
    invalid |->
      <<"D", "i", "e", " ", "v", "r", "a", "a", "g", " ", "s", "n", "a", "p", " ", "i", "k", " ", "n", "i", "e", "t", " ", "f", "a", "m", ",", " ", "r", "e", "t", "r", "y", "?", " ", "U1F914">>,
    rate_limit |->
      <<"R", "u", "s", "t", "i", "g", " ", "a", "a", "n", " ", "f", "a", "m", "!", " ", "P", "r", "o", "b", "e", "e", "r", " ", "o", "v", "e", "r", " ", "e", "e", "n", " ", "u", "u", "r", "t", "j", "e", " ", "w", "e", "e", "r", "!", " ", "U23F3">> ]

INVALID_ANSWER_MESSAGE ==
  <<"S", "o", "r", "r", "y", " ", "f", "a", "m", ",", " ", "d", "e", "z", "e", " ", "s", "n", "a", "p", " ", "i", "k", " ", "e", "v", "e", "n", " ", "n", "i", "e", "t", " ", "1", "0", "0", "%", ".", " ", "K", "u", "n", " ", "j", "e", " ", "h", "e", "t", " ", "a", "n", "d", "e", "r", "s", " ", "v", "r", "a", "g", "e", "n", "?", " ", "U1F914">>

generic_responses ==
  << <<"i", "k", " ", "b", "e", "g", "r", "i", "j", "p", " ", "j", "e", " ", "v", "r", "a", "a", "g">>,
     <<"d", "a", "t", " ", "i", "s", " ", "e", "e", "n", " ", "g", "o", "e", "d", "e", " ", "v", "r", "a", "a", "g">>,
     <<"l", "a", "a", "t", " ", "m", "e", " ", "j", "e", " ", "h", "e", "l", "p", "e", "n">> >>

metadata_patterns ==
  << [pre |-> <<"(", "n", "o", "t", "e", ":">>, suf |-> <<")">>],
     [pre |-> <<"[", "n", "o", "t", "e", ":">>, suf |-> <<"]">>],
     [pre |-> <<"{", "n", "o", "t", "e", ":">>, suf |-> <<"}">>],
     [pre |-> <<"t", "h", "i", "s", " ", "r", "e", "s", "p", "o", "n", "s", "e">>, suf |-> <<"b", "a", "s", "e", "d", ".">>],
     [pre |-> <<"a", "s", " ", "a", "n", " ", "a", "i">>, suf |-> <<".">>],
     [pre |-> <<"i", " ", "a", "m">>, suf |-> <<"m", "o", "d", "e", "l", ".">>],
     [pre |-> <<"i", "'", "m">>, suf |-> <<"m", "o", "d", "e", "l", ".">>] >>

EMOJIS == {"U1F9EE", "U1F4AF", "U1F914", "U1F4AA", "U2728"}

EMOJI_SUFFIX == <<" ", "U1F9EE">>

CLOSING_MARKER == <<"!", " ", "U1F4AF">>

FORMULE == <<"f", "o", "r", "m", "u", "l", "e">>

(***************************************************************************)
(* Text helpers (Python str operations used by the source)                 *)
(***************************************************************************)
UPPER == <<"A","B","C","D","E","F","G","H","I","J","K","L","M",
           "N","O","P","Q","R","S","T","U","V","W","X","Y","Z">>

LOWER == <<"a","b","c","d","e","f","g","h","i","j","k","l","m",
           "n","o","p","q","r","s","t","u","v","w","x","y","z">>

DIGITS == <<"0","1","2","3","4","5","6","7","8","9">>

WHITESPACE == {" ", "LF", "TAB"}

\* str.lower() on one code point
LowerChar(c) ==
  IF \E i \in 1..26 : UPPER[i] = c
    THEN LOWER[CHOOSE i \in 1..26 : UPPER[i] = c]
    ELSE c

\* str.lower()
Lower(s) == [i \in 1..Len(s) |-> LowerChar(s[i])]

\* str.isdigit() on one code point
IsDigit(c) == \E i \in 1..10 : DIGITS[i] = c

DigitValue(c) == (CHOOSE i \in 1..10 : DIGITS[i] = c) - 1

\* k occurs in s at index i (1-based)
OccursAt(k, s, i) ==
  /\ i >= 1
  /\ i + Len(k) - 1 <= Len(s)
  /\ SubSeq(s, i, i + Len(k) - 1) = k

\* Python: k in s
Contains(k, s) == \E i \in 1..(Len(s) + 1) : OccursAt(k, s, i)

\* any(c.isdigit() for c in s)
HasDigit(s) == \E i \in 1..Len(s) : IsDigit(s[i])

RECURSIVE LStrip(_)
\* str.lstrip()
LStrip(s) ==
  IF s # <<>> /\ Head(s) \in WHITESPACE THEN LStrip(Tail(s)) ELSE s

RECURSIVE RStrip(_)
\* str.rstrip()
RStrip(s) ==
  IF s # <<>> /\ s[Len(s)] \in WHITESPACE
    THEN RStrip(SubSeq(s, 1, Len(s) - 1))
    ELSE s

\* str.strip()
Strip(s) == RStrip(LStrip(s))

\* ' '.join(s.split()) applied to a text without leading whitespace: every
\* run of whitespace inside the text becomes one space, a trailing run is dropped
CollapseSpaces(s) ==
  LET IsText(i) == s[i] \notin WHITESPACE
      Kept(i) == \/ IsText(i)
                 \/ /\ i > 1
                    /\ IsText(i - 1)
                    /\ \E j \in (i + 1)..Len(s) : IsText(j)
      kept == SelectSeq([i \in 1..Len(s) |-> i], Kept)
  IN  [k \in 1..Len(kept) |-> IF IsText(kept[k]) THEN s[kept[k]] ELSE " "]

\* ' '.join(s.split())
JoinSplit(s) == CollapseSpaces(LStrip(s))

(***************************************************************************)
(* Validation functions                                                    *)
(***************************************************************************)
\* any(keyword in question_lower for keyword in keywords)
AnyKeywordIn(keywords, text) ==
  \E j \in 1..Len(keywords) : Contains(keywords[j], text)

\* identify_math_context ranking the contexts by the number of their keywords
\* that occur in the question
identify_math_context_MostKeywords(question) ==
  LET question_lower == Lower(question)
      Score(i) == Cardinality({j \in 1..Len(MATH_CONTEXTS[i].keywords) :
                                 Contains(MATH_CONTEXTS[i].keywords[j], question_lower)})
      hits == {i \in 1..Len(MATH_CONTEXTS) : Score(i) > 0}
      best == {i \in hits : \A j \in hits : Score(j) <= Score(i)}
  IN  IF hits = {} THEN "algemeen"
      ELSE MATH_CONTEXTS[CHOOSE i \in best : \A j \in best : i <= j].context

identify_math_context(question) ==
  LET question_lower == Lower(question)
      hits == {i \in 1..Len(MATH_CONTEXTS) :
                 AnyKeywordIn(MATH_CONTEXTS[i].keywords, question_lower)}
  IN  IF hits = {} THEN "algemeen"
      ELSE MATH_CONTEXTS[CHOOSE i \in hits : \A j \in hits : i <= j].context

RECURSIVE Flatten(_)
\* sum(lists, [])
Flatten(lists) ==
  IF lists = <<>> THEN <<>> ELSE Head(lists) \o Flatten(Tail(lists))

\* validate_math_question looking only at the keywords of the first context
validate_math_question_FirstContext(question) ==
  LET math_indicators == MATH_CONTEXTS[1].keywords
  IN  AnyKeywordIn(math_indicators, Lower(question))

validate_math_question(question) ==
  LET math_indicators ==
        Flatten([i \in 1..Len(MATH_CONTEXTS) |-> MATH_CONTEXTS[i].keywords])
  IN  AnyKeywordIn(math_indicators, Lower(question))

RECURSIVE DigitsEnd(_, _)
\* index just past the run of digits of s that starts at i
DigitsEnd(s, i) ==
  IF i <= Len(s) /\ IsDigit(s[i]) THEN DigitsEnd(s, i + 1) ELSE i

\* re.match(r'-?\d*\.?\d+') at index i: the index just past the match,
\* or 0 when the pattern does not match at i
NumberEnd(s, i) ==
  LET j == IF i <= Len(s) /\ s[i] = "-" THEN i + 1 ELSE i
      k == DigitsEnd(s, j)
  IN  IF k + 1 <= Len(s) /\ s[k] = "." /\ IsDigit(s[k + 1])
        THEN DigitsEnd(s, k + 1)
      ELSE IF k > j THEN k
      ELSE 0

RECURSIVE Mantissa(_, _)
\* the digits of s read as one integer, acc being the digits read so far
Mantissa(s, acc) ==
  IF s = <<>> THEN acc
  ELSE IF IsDigit(Head(s)) THEN Mantissa(Tail(s), 10 * acc + DigitValue(Head(s)))
  ELSE Mantissa(Tail(s), acc)

RECURSIVE FractionDigits(_)
\* number of digits after the decimal point of a matched number
FractionDigits(s) ==
  IF s = <<>> THEN 0
  ELSE IF Head(s) = "." THEN Len(s) - 1
  ELSE FractionDigits(Tail(s))

RECURSIVE Pow10(_)
Pow10(n) == IF n = 0 THEN 1 ELSE 10 * Pow10(n - 1)

\* abs(float(m)) of a matched number m, as mant / 10^frac
AbsFloat(m) == [mant |-> Mantissa(m, 0), frac |-> FractionDigits(m)]

RECURSIVE FindNumbers(_, _)
\* [abs(float(n)) for n in re.findall(r'-?\d*\.?\d+', s)], scanning from i
FindNumbers(s, i) ==
  LET starts == {j \in i..Len(s) : NumberEnd(s, j) # 0}
  IN  IF starts = {} THEN <<>>
      ELSE LET b == CHOOSE j \in starts : \A m \in starts : j <= m
               e == NumberEnd(s, b)
           IN  <<AbsFloat(SubSeq(s, b, e - 1))>> \o FindNumbers(s, e)

\* a > c * b for non-negative decimals a, b and a natural c
GreaterThanTimes(a, c, b) ==
  a.mant * Pow10(b.frac) > c * b.mant * Pow10(a.frac)

verify_numerical_answer(question, answer) ==
  LET question_nums == FindNumbers(question, 1)
      answer_nums == FindNumbers(answer, 1)
      one == [mant |-> 1, frac |-> 0]
  IN  IF answer_nums = <<>> THEN TRUE
      ELSE IF \E i \in 1..Len(answer_nums) :
                GreaterThanTimes(answer_nums[i], 1000000, one)
        THEN FALSE
      ELSE IF question_nums # <<>>
              /\ \E i \in 1..Len(answer_nums) :
                   \A j \in 1..Len(question_nums) :
                     GreaterThanTimes(answer_nums[i], 1000, question_nums[j])
        THEN FALSE
      ELSE TRUE

validate_answer(question, answer, context) ==
  IF HasDigit(question) /\ ~HasDigit(answer) THEN FALSE
  ELSE IF \E i \in 1..Len(generic_responses) :
            Contains(generic_responses[i], Lower(answer))
    THEN FALSE
  ELSE IF context = "meetkunde" /\ ~Contains(FORMULE, Lower(answer)) THEN FALSE
  ELSE verify_numerical_answer(question, answer)

(***************************************************************************)
(* Response shaping                                                        *)
(***************************************************************************)
\* smallest index j >= i at which k occurs in s, or 0
FirstOccurrence(k, s, i) ==
  LET js == {j \in i..(Len(s) + 1) : OccursAt(k, s, j)}
  IN  IF js = {} THEN 0 ELSE CHOOSE j \in js : \A m \in js : j <= m

\* index just past the match of pre + '.*?' + suf that begins at i, or 0
MatchEnd(low, p, i) ==
  IF OccursAt(p.pre, low, i)
    THEN LET j == FirstOccurrence(p.suf, low, i + Len(p.pre))
         IN  IF j = 0 THEN 0 ELSE j + Len(p.suf)
    ELSE 0

RECURSIVE RemoveFrom(_, _, _, _)
\* the matches of pre + '.*?' + suf removed from s[i..], low being s lower-cased
RemoveFrom(s, low, p, i) ==
  LET starts == {j \in i..Len(s) : MatchEnd(low, p, j) # 0}
  IN  IF starts = {} THEN SubSeq(s, i, Len(s))
      ELSE LET b == CHOOSE j \in starts : \A m \in starts : j <= m
           IN  SubSeq(s, i, b - 1) \o RemoveFrom(s, low, p, MatchEnd(low, p, b))

\* re.sub(pre + '.*?' + suf, '', s, flags=re.IGNORECASE)
RemovePattern(s, p) == RemoveFrom(s, Lower(s), p, 1)

RECURSIVE RemovePatterns(_, _)
\* for pattern in metadata_patterns: response = re.sub(pattern, '', response)
RemovePatterns(s, n) ==
  IF n > Len(metadata_patterns) THEN s
  ELSE RemovePatterns(RemovePattern(s, metadata_patterns[n]), n + 1)

\* any(char in response for char in EMOJIS)
HasEmoji(s) == \E i \in 1..Len(s) : s[i] \in EMOJIS

\* s.rsplit('.', 1)[0]
RSplitDot(s) ==
  LET dots == {i \in 1..Len(s) : s[i] = "."}
  IN  IF dots = {} THEN s
      ELSE SubSeq(s, 1, (CHOOSE i \in dots : \A j \in dots : j <= i) - 1)

\* post_process_response without the emoji appended to a text that has none
post_process_response_NoEmoji(response) ==
  LET joined == JoinSplit(response)
      cleaned == RemovePatterns(joined, 1)
      capped == IF Len(cleaned) > MAX_RESPONSE_LENGTH
                  THEN RSplitDot(SubSeq(cleaned, 1, MAX_RESPONSE_LENGTH))
                       \o CLOSING_MARKER
                  ELSE cleaned
  IN  Strip(capped)

post_process_response(response) ==
  LET joined == JoinSplit(response)
      cleaned == RemovePatterns(joined, 1)
      withEmoji == IF HasEmoji(cleaned) THEN cleaned ELSE cleaned \o EMOJI_SUFFIX
      capped == IF Len(withEmoji) > MAX_RESPONSE_LENGTH
                  THEN RSplitDot(SubSeq(withEmoji, 1, MAX_RESPONSE_LENGTH))
                       \o CLOSING_MARKER
                  ELSE withEmoji
  IN  Strip(capped)

(***************************************************************************)
(* Bounds of the model and the inputs it draws                             *)
(***************************************************************************)
\* number of request handlers (chat() coroutines) that can exist at once
NumHandlers == 2

\* number of POST /chat requests received in one behaviour
MaxServed == 3

\* seconds by which one step of the clock advances time.time()
Quantum == 1800

\* ages saturate here, above CACHE_EXPIRATION and WINDOW_SIZE
AgeCap == CACHE_EXPIRATION + Quantum

Handlers == 1..NumHandlers

ClientIPs == {"10.0.0.2"}

\* request.message values: "3+5", "hoi", "X"
Questions ==
  { <<"3", "+", "5">>,
    <<"h", "o", "i">>,
    <<"X">> }

\* message.content values the completion service returns: "8", " 9 .", ""
Answers ==
  { <<"8">>,
    <<" ", "9", " ", ".">>,
    <<>> }

\* what requests.post(...) followed by raise_for_status() and
\* response.json()["choices"][0]["message"]["content"] can produce
PostOutcomes ==
  [kind : {"ok"}, content : Answers]
    \cup [kind : {"RequestException", "KeyError"}, content : {<<>>}]

\* request.message values of the single request of OneRequestSpec: "", " ",
\* "x/2", "+ breuk noemer", "OMTREK", "2 keer 3", "50%", "hoi", "y=1" and
\* 501 times "a"
WideQuestions ==
  { <<>>,
    <<" ">>,
    <<"x", "/", "2">>,
    <<"+", " ", "b", "r", "e", "u", "k", " ", "n", "o", "e", "m", "e", "r">>,
    <<"O", "M", "T", "R", "E", "K">>,
    <<"2", " ", "k", "e", "e", "r", " ", "3">>,
    <<"5", "0", "%">>,
    <<"h", "o", "i">>,
    <<"y", "=", "1">>,
    [i \in 1..501 |-> "a"] }

\* a text of 199 times "a", one of 199 times "a" followed by ".bbb", and
\* "Dus 8. " followed by 200 times "b"
LongAnswers ==
  { [i \in 1..199 |-> "a"],
    [i \in 1..199 |-> "a"] \o <<".", "b", "b", "b">>,
    <<"D", "u", "s", " ", "8", ".", " ">> \o [i \in 1..200 |-> "b"] }

\* message.content values of OneRequestSpec: "8", "", "As an AI model.",
\* "8 U1F4AF", "de formule is 2" and the long texts
WideAnswers ==
  { <<"8">>,
    <<>>,
    <<"A", "s", " ", "a", "n", " ", "A", "I", " ", "m", "o", "d", "e", "l", ".">>,
    <<"8", " ", "U1F4AF">>,
    <<"d", "e", " ", "f", "o", "r", "m", "u", "l", "e", " ", "i", "s", " ", "2">> } \cup LongAnswers

WidePostOutcomes ==
  [kind : {"ok"}, content : WideAnswers]
    \cup [kind : {"RequestException", "KeyError"}, content : {<<>>}]

AllQuestions == Questions \cup WideQuestions

AllAnswers == Answers \cup WideAnswers

NoOutcome == [kind |-> "none", content |-> <<>>]

NoResponse == [kind |-> "none", status |-> 0, text |-> <<>>, cached |-> FALSE]

\* the JSON body chat() returns with HTTP 200
Json(text, cached) ==
  [kind |-> "json", status |-> 200, text |-> text, cached |-> cached]

\* raise HTTPException(status_code=status, detail=detail)
HTTPException(status, detail) ==
  [kind |-> "HTTPException", status |-> status, text |-> detail, cached |-> FALSE]

\* message: str = Field(..., min_length=1, max_length=500)
ChatRequest(message) ==
  Len(message) >= MIN_LENGTH /\ Len(message) <= MAX_LENGTH

\* the response the framework gives to a body that fails ChatRequest
RequestValidationError ==
  [kind |-> "RequestValidationError", status |-> 422, text |-> <<>>, cached |-> FALSE]

Min(a, b) == IF a < b THEN a ELSE b

Max(a, b) == IF a > b THEN a ELSE b

\* the age of a timestamp after d more seconds
Older(age, d) == Min(age + d, AgeCap)

(***************************************************************************)
(* RateLimiter and LocalCache                                              *)
(***************************************************************************)
\* d with d[k] = v, k being a new or an existing key
Put(d, k, v) == [x \in DOMAIN d \cup {k} |-> IF x = k THEN v ELSE d[x]]

\* d without key k
Delete(d, k) == [x \in DOMAIN d \ {k} |-> d[x]]

\* s with x appended
ListAppend(s, x) == Append(s, x)

\* check_rate_limit with > in place of >= in the test of the limit
check_rate_limit_OffByOne(requests, client_ip) ==
  LET known == IF client_ip \in DOMAIN requests THEN requests[client_ip] ELSE <<>>
      InWindow(age) == age < WINDOW_SIZE
      recent == SelectSeq(known, InWindow)
  IN  IF Len(recent) > MAX_REQUESTS
        THEN [allowed |-> FALSE, requests |-> Put(requests, client_ip, recent)]
        ELSE [allowed |-> TRUE,
              requests |-> Put(requests, client_ip, ListAppend(recent, 0))]

\* check_rate_limit appending the timestamp of a rejected request too
check_rate_limit_RecordRejected(requests, client_ip) ==
  LET known == IF client_ip \in DOMAIN requests THEN requests[client_ip] ELSE <<>>
      InWindow(age) == age < WINDOW_SIZE
      recent == SelectSeq(known, InWindow)
  IN  [allowed |-> Len(recent) < MAX_REQUESTS,
       requests |-> Put(requests, client_ip, ListAppend(recent, 0))]

\* RateLimiter.check_rate_limit: the answer and the new value of _requests
check_rate_limit(requests, client_ip) ==
  LET known == IF client_ip \in DOMAIN requests THEN requests[client_ip] ELSE <<>>
      InWindow(age) == age < WINDOW_SIZE
      recent == SelectSeq(known, InWindow)
  IN  IF Len(recent) >= MAX_REQUESTS
        THEN [allowed |-> FALSE, requests |-> Put(requests, client_ip, recent)]
        ELSE [allowed |-> TRUE,
              requests |-> Put(requests, client_ip, ListAppend(recent, 0))]

\* time.time() - timestamp < settings.CACHE_EXPIRATION
Fresh(entry) == entry.age < CACHE_EXPIRATION

\* cache_get without the del of the expired entry
cache_get_KeepExpired(items, key) ==
  IF key \in DOMAIN items /\ Fresh(items[key])
    THEN [found |-> TRUE, value |-> items[key].value, items |-> items]
    ELSE [found |-> FALSE, value |-> <<>>, items |-> items]

\* cache_get without the test of the age of the entry
cache_get_IgnoreAge(items, key) ==
  IF key \in DOMAIN items
    THEN [found |-> TRUE, value |-> items[key].value, items |-> items]
    ELSE [found |-> FALSE, value |-> <<>>, items |-> items]

\* LocalCache.get: found is FALSE for None; items is the new value of _items
cache_get(items, key) ==
  IF key \in DOMAIN items
    THEN IF Fresh(items[key])
           THEN [found |-> TRUE, value |-> items[key].value, items |-> items]
           ELSE [found |-> FALSE, value |-> <<>>, items |-> Delete(items, key)]
    ELSE [found |-> FALSE, value |-> <<>>, items |-> items]

\* cache_set with the entry stored under the lower-cased key
cache_set_LowerKey(items, key, value) ==
  Put(items, Lower(key), [value |-> value, age |-> 0])

\* LocalCache.set: the new value of _items
cache_set(items, key, value) == Put(items, key, [value |-> value, age |-> 0])

\* clear_expired dropping only the entries older than the window
clear_expired_Strict(items) ==
  LET keep == {k \in DOMAIN items : items[k].age <= CACHE_EXPIRATION}
  IN  [k \in keep |-> items[k]]

\* clear_expired with the filter inverted
clear_expired_Inverted(items) ==
  LET keep == {k \in DOMAIN items : ~Fresh(items[k])}
  IN  [k \in keep |-> items[k]]

\* LocalCache.clear_expired: the new value of _items
clear_expired(items) ==
  LET keep == {k \in DOMAIN items : Fresh(items[k])}
  IN  [k \in keep |-> items[k]]

(***************************************************************************)
(* State                                                                   *)
(***************************************************************************)
VARIABLES
  rl_requests,   \* RateLimiter._requests: client ip -> ages of its admitted requests
  cache_items,   \* LocalCache._items: question -> [value, age]
  handler,       \* per handler: position in chat()/get_ai_response and locals
  loop,          \* the handler the event loop is executing, or NoTask
  sleep_left,    \* seconds until cleanup_cache's asyncio.sleep(300) is over
  served,        \* requests received so far
  last_set,      \* history: question -> [value, age] of the latest cache.set
  prev           \* history: the request that returned last

vars ==
  <<rl_requests, cache_items, handler, loop, sleep_left, served, last_set, prev>>

\* the event loop executes no coroutine
NoTask == 0

IdleHandler ==
  [pc |-> "idle", message |-> <<>>, client_ip |-> "", context |-> "",
   outcome |-> NoOutcome, response |-> NoResponse,
   ext_calls |-> 0, cache_reads |-> 0, cache_writes |-> 0, waited |-> 0]

NoPrev == [message |-> <<>>, response |-> NoResponse]

\* _requests of a process in which one client has just made
\* MAX_REQUESTS - 1 requests
BusyClient ==
  [ip \in {"10.0.0.2"} |-> [i \in 1..(MAX_REQUESTS - 1) |-> 0]]

Init ==
  /\ rl_requests \in {<<>>, BusyClient}
  /\ cache_items = <<>>
  /\ handler = [h \in Handlers |-> IdleHandler]
  /\ loop = NoTask
  /\ sleep_left = 0
  /\ served = 0
  /\ last_set = <<>>
  /\ prev = NoPrev

(***************************************************************************)
(* The pure functions of the request path, tabulated over the questions    *)
(* and completions the model draws                                         *)
(***************************************************************************)
Contexts == {MATH_CONTEXTS[i].context : i \in 1..Len(MATH_CONTEXTS)} \cup {"algemeen"}

\* validate_math_question(user_question)
in_domain == [q \in AllQuestions |-> validate_math_question(q)]

\* identify_math_context(user_question)
context_of == [q \in AllQuestions |-> identify_math_context(q)]

\* validate_answer(user_question, result, context), result being the
\* stripped message content
answer_valid ==
  [q \in AllQuestions, a \in AllAnswers, c \in Contexts |->
     validate_answer(q, Strip(a), c)]

\* post_process_response(result), result being the stripped message content
shaped == [a \in AllAnswers |-> post_process_response(Strip(a))]

(***************************************************************************)
(* POST /chat: chat() and get_ai_response()                                *)
(***************************************************************************)
\* time passes only while the loop is idle or the running coroutine is
\* blocked in requests.post; the other steps of a coroutine take no time
CanPass ==
  \/ loop = NoTask
  \/ loop \in Handlers /\ handler[loop].pc = "blocked"

\* a request arrives and its chat() coroutine is scheduled
Receive(h, q, ip) ==
  /\ handler[h].pc = "idle"
  /\ \A g \in Handlers : g < h => handler[g].pc # "idle"
  /\ served < MaxServed
  /\ CanPass
  /\ handler' = [handler EXCEPT ![h] =
                   [IdleHandler EXCEPT !.pc = "pending", !.message = q,
                                       !.client_ip = ip]]
  /\ served' = served + 1
  /\ UNCHANGED <<rl_requests, cache_items, loop, sleep_left, last_set, prev>>

\* the loop starts on the request: the body is validated against ChatRequest
\* and chat() is not called for an invalid one; otherwise chat() calls
\* get_ai_response, which checks the rate limit
CheckRateLimit(h) ==
  /\ handler[h].pc = "pending"
  /\ loop = NoTask
  /\ IF ~ChatRequest(handler[h].message)
       THEN /\ rl_requests' = rl_requests
            /\ handler' = [handler EXCEPT ![h] =
                 [@ EXCEPT !.pc = "return", !.response = RequestValidationError]]
       ELSE LET r == check_rate_limit(rl_requests, handler[h].client_ip)
            IN  /\ rl_requests' = r.requests
                /\ handler' = [handler EXCEPT ![h] =
                     IF r.allowed
                       THEN [@ EXCEPT !.pc = "validate"]
                       ELSE [@ EXCEPT !.pc = "return",
                                      !.response = HTTPException(429, ERROR_MESSAGES.rate_limit)]]
  /\ loop' = h
  /\ UNCHANGED <<cache_items, sleep_left, served, last_set, prev>>

\* ValidateQuestion with the test inverted
ValidateQuestion_Inverted(h) ==
  /\ handler[h].pc = "validate"
  /\ handler' = [handler EXCEPT ![h] =
       IF ~in_domain[@.message]
         THEN [@ EXCEPT !.pc = "lookup"]
         ELSE [@ EXCEPT !.pc = "return",
                        !.response = Json(ERROR_MESSAGES.non_math, FALSE)]]
  /\ UNCHANGED <<rl_requests, cache_items, loop, sleep_left, served, last_set, prev>>

\* if not validate_math_question(user_question): return non_math, False
ValidateQuestion(h) ==
  /\ handler[h].pc = "validate"
  /\ handler' = [handler EXCEPT ![h] =
       IF in_domain[@.message]
         THEN [@ EXCEPT !.pc = "lookup"]
         ELSE [@ EXCEPT !.pc = "return",
                        !.response = Json(ERROR_MESSAGES.non_math, FALSE)]]
  /\ UNCHANGED <<rl_requests, cache_items, loop, sleep_left, served, last_set, prev>>

\* cached_response = cache.get(user_question); if cached_response: return it
CacheLookup(h) ==
  /\ handler[h].pc = "lookup"
  /\ LET g == cache_get(cache_items, handler[h].message)
         hit == g.found /\ g.value # <<>>
     IN  /\ cache_items' = g.items
         /\ handler' = [handler EXCEPT ![h] =
              IF hit
                THEN [@ EXCEPT !.pc = "return", !.cache_reads = @ + 1,
                               !.response = Json(g.value, TRUE)]
                ELSE [@ EXCEPT !.pc = "post", !.cache_reads = @ + 1,
                               !.context = context_of[handler[h].message]]]
  /\ UNCHANGED <<rl_requests, loop, sleep_left, served, last_set, prev>>

\* requests.post(...) is entered: a blocking call made on the event loop's
\* thread, inside asyncio.timeout(settings.AI_TIMEOUT)
Post(h) ==
  /\ handler[h].pc = "post"
  /\ handler' = [handler EXCEPT ![h] =
                   [@ EXCEPT !.pc = "blocked", !.ext_calls = @ + 1]]
  /\ UNCHANGED <<rl_requests, cache_items, loop, sleep_left, served, last_set, prev>>

\* the completion service answers or the connection fails
PostReturns(h, o) ==
  /\ handler[h].pc = "blocked"
  /\ handler' = [handler EXCEPT ![h] = [@ EXCEPT !.pc = "received", !.outcome = o]]
  /\ UNCHANGED <<rl_requests, cache_items, loop, sleep_left, served, last_set, prev>>

\* ExceptionResponse with one generic except clause
ExceptionResponse_Generic(kind) == HTTPException(500, ERROR_MESSAGES.invalid)

\* the except clauses of get_ai_response
ExceptionResponse(kind) ==
  CASE kind = "TimeoutError" -> HTTPException(504, ERROR_MESSAGES.timeout)
    [] kind = "RequestException" -> HTTPException(503, ERROR_MESSAGES.service)
    [] OTHER -> HTTPException(500, ERROR_MESSAGES.invalid)

\* HandleResult with the call repeated after a RequestException
HandleResult_Retry(h) ==
  /\ handler[h].pc = "received"
  /\ LET me == handler[h]
         valid == answer_valid[me.message, me.outcome.content, me.context]
         processed_response == shaped[me.outcome.content]
     IN  IF me.outcome.kind = "RequestException"
           THEN /\ handler' = [handler EXCEPT ![h] = [@ EXCEPT !.pc = "post"]]
                /\ UNCHANGED <<cache_items, last_set>>
         ELSE IF me.outcome.kind # "ok"
           THEN /\ handler' = [handler EXCEPT ![h] =
                     [@ EXCEPT !.pc = "return",
                               !.response = ExceptionResponse(me.outcome.kind)]]
                /\ UNCHANGED <<cache_items, last_set>>
         ELSE IF ~valid
           THEN /\ handler' = [handler EXCEPT ![h] =
                     [@ EXCEPT !.pc = "return",
                               !.response = Json(INVALID_ANSWER_MESSAGE, FALSE)]]
                /\ UNCHANGED <<cache_items, last_set>>
         ELSE /\ handler' = [handler EXCEPT ![h] =
                   [@ EXCEPT !.pc = "return", !.cache_writes = @ + 1,
                             !.response = Json(processed_response, FALSE)]]
              /\ cache_items' = cache_set(cache_items, me.message, processed_response)
              /\ last_set' = Put(last_set, me.message,
                                 [value |-> processed_response, age |-> 0])
  /\ UNCHANGED <<rl_requests, loop, sleep_left, served, prev>>

\* HandleResult with cache.set made before validate_answer is consulted
HandleResult_StoreUnvalidated(h) ==
  /\ handler[h].pc = "received"
  /\ LET me == handler[h]
         valid == answer_valid[me.message, me.outcome.content, me.context]
         processed_response == shaped[me.outcome.content]
     IN  IF me.outcome.kind # "ok"
           THEN /\ handler' = [handler EXCEPT ![h] =
                     [@ EXCEPT !.pc = "return",
                               !.response = ExceptionResponse(me.outcome.kind)]]
                /\ UNCHANGED <<cache_items, last_set>>
         ELSE /\ handler' = [handler EXCEPT ![h] =
                   [@ EXCEPT !.pc = "return", !.cache_writes = @ + 1,
                             !.response =
                               IF valid THEN Json(processed_response, FALSE)
                               ELSE Json(INVALID_ANSWER_MESSAGE, FALSE)]]
              /\ cache_items' = cache_set(cache_items, me.message, processed_response)
              /\ last_set' = Put(last_set, me.message,
                                 [value |-> processed_response, age |-> 0])
  /\ UNCHANGED <<rl_requests, loop, sleep_left, served, prev>>

\* the rest of the try block: validate_answer, post_process_response,
\* cache.set, and the except clauses
HandleResult(h) ==
  /\ handler[h].pc = "received"
  /\ LET me == handler[h]
         valid == answer_valid[me.message, me.outcome.content, me.context]
         processed_response == shaped[me.outcome.content]
     IN  IF me.outcome.kind # "ok"
           THEN /\ handler' = [handler EXCEPT ![h] =
                     [@ EXCEPT !.pc = "return",
                               !.response = ExceptionResponse(me.outcome.kind)]]
                /\ UNCHANGED <<cache_items, last_set>>
         ELSE IF ~valid
           THEN /\ handler' = [handler EXCEPT ![h] =
                     [@ EXCEPT !.pc = "return",
                               !.response = Json(INVALID_ANSWER_MESSAGE, FALSE)]]
                /\ UNCHANGED <<cache_items, last_set>>
         ELSE /\ handler' = [handler EXCEPT ![h] =
                   [@ EXCEPT !.pc = "return", !.cache_writes = @ + 1,
                             !.response = Json(processed_response, FALSE)]]
              /\ cache_items' = cache_set(cache_items, me.message, processed_response)
              /\ last_set' = Put(last_set, me.message,
                                 [value |-> processed_response, age |-> 0])
  /\ UNCHANGED <<rl_requests, loop, sleep_left, served, prev>>

\* chat() with the clause "except HTTPException: raise" missing
chat_except_Rewrite(response) ==
  IF response.kind = "json" THEN response
  ELSE HTTPException(500, ERROR_MESSAGES.invalid)

\* the except clauses of chat(): an HTTPException is raised again as it is,
\* any other exception becomes HTTP 500
chat_except(response) ==
  IF response.kind \in {"json", "HTTPException"} THEN response
  ELSE HTTPException(500, ERROR_MESSAGES.invalid)

\* chat() returns the JSON body or re-raises the HTTPException; the
\* coroutine ends, its slot and the loop are free again
Return(h) ==
  /\ handler[h].pc = "return"
  /\ handler' = [handler EXCEPT ![h] = IdleHandler]
  /\ loop' = NoTask
  /\ prev' = [message |-> handler[h].message,
              response |-> IF handler[h].response = RequestValidationError
                             THEN handler[h].response
                             ELSE chat_except(handler[h].response)]
  /\ UNCHANGED <<rl_requests, cache_items, sleep_left, served, last_set>>

(***************************************************************************)
(* startup_event / cleanup_cache and the clock                             *)
(***************************************************************************)
\* one turn of cleanup_cache's loop: cache.clear_expired(), then
\* await asyncio.sleep(300); it runs when the sleep is over and the loop is free
CleanupCache ==
  /\ loop = NoTask
  /\ sleep_left = 0
  /\ cache_items' = clear_expired(cache_items)
  /\ sleep_left' = SWEEP_INTERVAL
  /\ UNCHANGED <<rl_requests, handler, loop, served, last_set, prev>>

\* time.time() advances by Quantum seconds while the loop is idle or the
\* running handler is blocked in requests.post
Tick ==
  /\ CanPass
  /\ rl_requests' = [ip \in DOMAIN rl_requests |->
                       [i \in 1..Len(rl_requests[ip]) |->
                          Older(rl_requests[ip][i], Quantum)]]
  /\ cache_items' = [k \in DOMAIN cache_items |->
                       [cache_items[k] EXCEPT !.age = Older(@, Quantum)]]
  /\ last_set' = [k \in DOMAIN last_set |->
                    [last_set[k] EXCEPT !.age = Older(@, Quantum)]]
  /\ sleep_left' = Max(sleep_left - Quantum, 0)
  /\ handler' = [h \in Handlers |->
                   IF handler[h].pc = "blocked"
                     THEN [handler[h] EXCEPT !.waited = Older(@, Quantum)]
                     ELSE handler[h]]
  /\ UNCHANGED <<loop, served, prev>>

Next ==
  \/ \E h \in Handlers, q \in Questions, ip \in ClientIPs : Receive(h, q, ip)
  \/ \E h \in Handlers : CheckRateLimit(h)
  \/ \E h \in Handlers : ValidateQuestion(h)
  \/ \E h \in Handlers : CacheLookup(h)
  \/ \E h \in Handlers : Post(h)
  \/ \E h \in Handlers, o \in PostOutcomes : PostReturns(h, o)
  \/ \E h \in Handlers : HandleResult(h)
  \/ \E h \in Handlers : Return(h)
  \/ CleanupCache
  \/ Tick

Spec == Init /\ [][Next]_vars

\* one step of the coroutine of handler h
Run(h) ==
  \/ CheckRateLimit(h)
  \/ ValidateQuestion(h)
  \/ CacheLookup(h)
  \/ Post(h)
  \/ HandleResult(h)
  \/ Return(h)

\* what the event loop guarantees: a coroutine that can take a step takes
\* it, cleanup_cache runs when its sleep is over and the loop is free, and
\* time passes; nothing makes the completion service answer
FairSpec ==
  /\ Spec
  /\ WF_vars(\E h \in Handlers : Run(h))
  /\ WF_vars(CleanupCache)
  /\ WF_vars(Tick)

\* one request, its message drawn from WideQuestions and the completion
\* from WidePostOutcomes, in a process that has served no request yet
OneRequestInit ==
  /\ rl_requests = <<>>
  /\ cache_items = <<>>
  /\ handler = [h \in Handlers |-> IdleHandler]
  /\ loop = NoTask
  /\ sleep_left = 0
  /\ served = MaxServed - 1
  /\ last_set = <<>>
  /\ prev = NoPrev

OneRequestNext ==
  \/ \E h \in Handlers, q \in WideQuestions, ip \in ClientIPs : Receive(h, q, ip)
  \/ \E h \in Handlers : CheckRateLimit(h)
  \/ \E h \in Handlers : ValidateQuestion(h)
  \/ \E h \in Handlers : CacheLookup(h)
  \/ \E h \in Handlers : Post(h)
  \/ \E h \in Handlers, o \in WidePostOutcomes : PostReturns(h, o)
  \/ \E h \in Handlers : HandleResult(h)
  \/ \E h \in Handlers : Return(h)

OneRequestSpec == OneRequestInit /\ [][OneRequestNext]_vars

\* the clients of RateLimitSpec
RateIPs == ClientIPs \cup {"10.0.0.3"}

\* requests of two clients, one of which may have just made
\* MAX_REQUESTS - 1 requests, and the clock; the question is one that
\* get_ai_response answers right after the rate limit check
RateLimitNext ==
  \/ \E h \in Handlers, ip \in RateIPs : Receive(h, <<"h", "o", "i">>, ip)
  \/ \E h \in Handlers : CheckRateLimit(h)
  \/ \E h \in Handlers : ValidateQuestion(h)
  \/ \E h \in Handlers : Return(h)
  \/ Tick

RateLimitSpec == Init /\ [][RateLimitNext]_vars

TypeOK ==
  /\ loop \in {NoTask} \cup Handlers
  /\ sleep_left \in 0..SWEEP_INTERVAL
  /\ served \in 0..MaxServed

(***************************************************************************)
(* Properties                                                              *)
(***************************************************************************)
\* the responses that report a failure or a refusal
FailureResponses ==
  { HTTPException(429, ERROR_MESSAGES.rate_limit),
    HTTPException(504, ERROR_MESSAGES.timeout),
    HTTPException(503, ERROR_MESSAGES.service),
    HTTPException(500, ERROR_MESSAGES.invalid),
    Json(ERROR_MESSAGES.non_math, FALSE),
    Json(INVALID_ANSWER_MESSAGE, FALSE) }

\* this step creates the entry for k or gives it a new value or timestamp
EntryWritten(k) ==
  /\ k \in DOMAIN cache_items'
  /\ \/ k \notin DOMAIN cache_items
     \/ cache_items'[k].value # cache_items[k].value
     \/ cache_items'[k].age < cache_items[k].age

\* handler h holds a completion that arrived and that validate_answer accepts
HoldsValidCompletion(h) ==
  /\ handler[h].pc = "received"
  /\ handler[h].outcome.kind = "ok"
  /\ answer_valid[handler[h].message, handler[h].outcome.content,
                  handler[h].context]

\* C1: a cache entry is created or changed only by the step of a request
\* that holds a completion which arrived and passed validate_answer, and it
\* then holds the shaped text of that completion; a request that ends in a
\* rate-limit rejection, the out-of-domain reply, a timeout, a transport
\* error, a malformed completion or a failed validation has made no cache.set.
\* (The lazy deletion of an expired entry by cache.get is not a write.)
C1_CacheOnlyAfterValidCompletion ==
  /\ [](\A h \in Handlers :
          handler[h].pc = "return" /\ handler[h].response \in FailureResponses
            => handler[h].cache_writes = 0)
  /\ [][ /\ \A k \in Questions :
              EntryWritten(k) =>
                \E h \in Handlers :
                  /\ HoldsValidCompletion(h)
                  /\ handler[h].message = k
                  /\ cache_items'[k].value =
                       shaped[handler[h].outcome.content]
         /\ \A h \in Handlers :
              handler'[h].cache_writes > handler[h].cache_writes
                => HoldsValidCompletion(h)
       ]_vars

\* a request ends in a failure of the completion call while the cache holds
\* an entry of an earlier request
C1_Witness ==
  \E h \in Handlers :
    /\ handler[h].pc = "return"
    /\ handler[h].ext_calls = 1
    /\ handler[h].response.status \in {500, 503}
    /\ cache_items # <<>>

\* the question contains none of the configured keywords or symbols
NoKeyword(q) ==
  \A i \in 1..Len(MATH_CONTEXTS) :
    \A j \in 1..Len(MATH_CONTEXTS[i].keywords) :
      ~Contains(MATH_CONTEXTS[i].keywords[j], Lower(q))

\* NoKeyword over the questions the model draws
no_keyword == [q \in Questions |-> NoKeyword(q)]

RateLimited == HTTPException(429, ERROR_MESSAGES.rate_limit)

\* handler h is about to return to the request that returned last the same
\* question, neither of the two being rejected by the rate limiter or failing
\* in the completion call
SecondOfTwoCalls(h) ==
  /\ handler[h].pc = "return"
  /\ prev.message = handler[h].message
  /\ prev.response.status \notin {0, 429, 500, 503, 504}
  /\ handler[h].response.status \notin {429, 500, 503, 504}

\* C2 as stated: for every question, the second of two successive calls
\* returns (r1, true), r1 being the text the first call returned with
\* cached = false, and makes no call to the completion service.
C2_EveryQuestionIdempotent ==
  \A h \in Handlers :
    SecondOfTwoCalls(h) /\ ~prev.response.cached
      => /\ handler[h].response = Json(prev.response.text, TRUE)
         /\ handler[h].ext_calls = 0

\* C2 (amended): when a call for q returned (r1, false) with r1 the shaped
\* text of a completion that passed validate_answer and was stored, the next
\* call for q, if the rate limiter admits it and it looks q up less than
\* CACHE_EXPIRATION seconds after r1 was stored, returns (r1, true), makes no
\* call to the completion service and leaves the cache as it is.
C2_StoredAnswerIdempotent ==
  [][ \A h \in Handlers :
        /\ handler[h].pc = "lookup"
        /\ handler'[h].pc # "lookup"
        /\ prev.message = handler[h].message
        /\ handler[h].message \in DOMAIN last_set
        /\ last_set[handler[h].message].age < CACHE_EXPIRATION
        /\ prev.response = Json(last_set[handler[h].message].value, FALSE)
        => /\ handler'[h].pc = "return"
           /\ handler'[h].response = Json(prev.response.text, TRUE)
           /\ handler'[h].ext_calls = 0
           /\ handler'[h].cache_writes = 0
           /\ cache_items' = cache_items
    ]_vars

\* the second call for a question is served from the cache entry that the
\* first call stored
C2_Witness ==
  \E h \in Handlers :
    /\ handler[h].pc = "return"
    /\ prev.message = handler[h].message
    /\ ~prev.response.cached
    /\ prev.response.kind = "json"
    /\ handler[h].response = Json(prev.response.text, TRUE)
    /\ handler[h].message \in DOMAIN last_set
    /\ last_set[handler[h].message].age > 0

\* C3 as stated: every question without a keyword gets the canned
\* out-of-domain message with cached = false and HTTP 200, without a cache
\* read, a cache write or a call to the completion service.
C3_NoKeywordAlwaysCanned ==
  \A h \in Handlers :
    handler[h].pc = "return" /\ no_keyword[handler[h].message]
      => /\ handler[h].response = Json(ERROR_MESSAGES.non_math, FALSE)
         /\ handler[h].cache_reads = 0
         /\ handler[h].cache_writes = 0
         /\ handler[h].ext_calls = 0

\* C3 (amended): a question without a keyword gets the canned out-of-domain
\* message with cached = false and HTTP 200, unless the rate limiter rejects
\* the request with HTTP 429; in both cases the request reads and writes no
\* cache entry and makes no call to the completion service.
C3_NoKeywordCannedUnlessRateLimited ==
  \A h \in Handlers :
    handler[h].pc \in {"lookup", "post", "blocked", "received", "return"}
      /\ no_keyword[handler[h].message]
      => /\ handler[h].pc = "return"
         /\ handler[h].response \in {Json(ERROR_MESSAGES.non_math, FALSE), RateLimited}
         /\ handler[h].cache_reads = 0
         /\ handler[h].cache_writes = 0
         /\ handler[h].ext_calls = 0

\* an admitted request without a keyword is answered while the cache holds
\* an entry
C3_Witness ==
  \E h \in Handlers :
    /\ handler[h].pc = "return"
    /\ no_keyword[handler[h].message]
    /\ handler[h].response = Json(ERROR_MESSAGES.non_math, FALSE)
    /\ cache_items # <<>>

\* C4: no handler waits for the completion service longer than AI_TIMEOUT,
\* and a request whose completion call took AI_TIMEOUT or longer ends with
\* HTTP 504 and the timeout message.
C4_TimeoutBoundsTheCall ==
  \A h \in Handlers :
    /\ handler[h].waited <= AI_TIMEOUT
    /\ handler[h].pc = "return" /\ handler[h].waited >= AI_TIMEOUT
         => handler[h].response = HTTPException(504, ERROR_MESSAGES.timeout)

\* handler h returns from a request whose completion call came back with o
ReturnsAfter(h, kinds) ==
  /\ handler[h].pc = "return"
  /\ handler[h].ext_calls = 1
  /\ handler[h].outcome.kind \in kinds

\* the completion handler h holds fails validate_answer
Useless(h) ==
  ~answer_valid[handler[h].message, handler[h].outcome.content,
                handler[h].context]

\* Timeout, ServiceUnavailable and InvalidCompletion are raised with three
\* different status codes and three different messages
FailuresDistinct ==
  LET t == ExceptionResponse("TimeoutError")
      s == ExceptionResponse("RequestException")
      i == ExceptionResponse("KeyError")
  IN  /\ {t.kind, s.kind, i.kind} = {"HTTPException"}
      /\ Cardinality({t.status, s.status, i.status}) = 3
      /\ Cardinality({t.text, s.text, i.text}) = 3

C6_AtMostOneCall ==
  \A h \in Handlers :
    /\ handler[h].ext_calls <= 1
    /\ handler[h].pc = "return"
         /\ \/ handler[h].response = RateLimited
            \/ no_keyword[handler[h].message]
            \/ handler[h].response.cached
         => handler[h].ext_calls = 0

\* a request whose completion call failed returns after that one call
C6_Witness ==
  \E h \in Handlers :
    /\ handler[h].pc = "return"
    /\ handler[h].outcome.kind = "RequestException"
    /\ handler[h].response.status = 503
    /\ handler[h].ext_calls = 1

\* handler h executes cache.get(user_question) in this step
GetBy(h) == handler[h].pc = "lookup" /\ handler'[h].pc # "lookup"

\* the entry for k exists and is younger than CACHE_EXPIRATION
StoredAndYoung(k) ==
  k \in DOMAIN cache_items /\ cache_items[k].age < CACHE_EXPIRATION

\* C7: cache.get(key) returns the stored value exactly when an entry for key
\* exists with an age below CACHE_EXPIRATION, and then changes nothing;
\* otherwise it returns None, an existing (expired) entry for key is deleted
\* and every other entry is left as it is.
C7_GetReturnsYoungEntries ==
  [][ \A h \in Handlers :
        GetBy(h) =>
          LET k == handler[h].message
          IN  IF StoredAndYoung(k)
                THEN /\ handler'[h].pc = "return"
                     /\ handler'[h].response = Json(cache_items[k].value, TRUE)
                     /\ cache_items' = cache_items
                ELSE /\ handler'[h].pc = "post"
                     /\ DOMAIN cache_items' = DOMAIN cache_items \ {k}
                     /\ \A j \in DOMAIN cache_items' :
                          cache_items'[j] = cache_items[j]
    ]_vars

\* cache.get has just deleted an entry that expired with the last step of
\* the clock, before any sweep, and another entry is still stored
C7_Witness ==
  \E h \in Handlers :
    /\ handler[h].pc = "post"
    /\ sleep_left = 0
    /\ handler[h].message \in DOMAIN last_set
    /\ last_set[handler[h].message].age >= CACHE_EXPIRATION
    /\ last_set[handler[h].message].age < CACHE_EXPIRATION + Quantum
    /\ handler[h].message \notin DOMAIN cache_items
    /\ cache_items # <<>>

\* cleanup_cache executes cache.clear_expired() in this step
SweepStep == sleep_left = 0 /\ sleep_left' = SWEEP_INTERVAL

\* C8: clear_expired removes every entry whose age is CACHE_EXPIRATION or
\* more, so that cache.get finds none of them afterwards, and it keeps every
\* younger entry with its value and timestamp; right after it has run the
\* cache holds no entry of age CACHE_EXPIRATION or more.
C8_ClearExpiredRemovesExactlyTheExpired ==
  /\ [](sleep_left = SWEEP_INTERVAL =>
          \A k \in DOMAIN cache_items : cache_items[k].age < CACHE_EXPIRATION)
  /\ [][ SweepStep =>
           /\ DOMAIN cache_items' \subseteq DOMAIN cache_items
           /\ \A k \in DOMAIN cache_items :
                IF cache_items[k].age >= CACHE_EXPIRATION
                  THEN /\ k \notin DOMAIN cache_items'
                       /\ ~cache_get(cache_items', k).found
                  ELSE /\ k \in DOMAIN cache_items'
                       /\ cache_items'[k] = cache_items[k]
       ]_vars

\* the sweep has just run: an entry that was never read again is gone and a
\* younger one that was stored before the sweep is still there
C8_Witness ==
  /\ sleep_left = SWEEP_INTERVAL
  /\ \E k \in DOMAIN last_set :
       last_set[k].age >= CACHE_EXPIRATION /\ k \notin DOMAIN cache_items
  /\ \E k \in DOMAIN cache_items : cache_items[k].age > 0

\* C9: every cache entry whose age has reached the expiration window is
\* eventually removed from the cache (or replaced by a new one), also when
\* no request reads it again.
C9_ExpiredEntriesEventuallyRemoved ==
  \A k \in Questions :
    (k \in DOMAIN cache_items /\ cache_items[k].age >= CACHE_EXPIRATION)
      ~> (k \notin DOMAIN cache_items \/ cache_items[k].age < CACHE_EXPIRATION)

\* C10: in every state that the interleaving of request handlers and the
\* sweep can reach, the entry of the latest cache.set for a key, if stored
\* less than CACHE_EXPIRATION seconds ago, is in the cache with its value and
\* timestamp, and cache.get for the key returns that value.
C10_YoungEntriesSurvive ==
  \A k \in DOMAIN last_set :
    last_set[k].age < CACHE_EXPIRATION
      => /\ k \in DOMAIN cache_items
         /\ cache_items[k] = last_set[k]
         /\ cache_get(cache_items, k).found
         /\ cache_get(cache_items, k).value = last_set[k].value

\* the sweep has just run while a request is waiting for the loop, and an
\* entry stored before the sweep is still in the cache
C10_Witness ==
  /\ sleep_left = SWEEP_INTERVAL
  /\ \E h \in Handlers : handler[h].pc = "pending"
  /\ \E k \in DOMAIN cache_items :
       cache_items[k].age > 0 /\ cache_items[k] = last_set[k]


\* handler h is past the cache lookup and before the cache write
InFlight(h) == handler[h].pc \in {"post", "blocked", "received"}

\* C11: two handlers for the same uncached question can both be past the
\* cache lookup and before the cache write: the call to the completion
\* service suspends only its own handler, so while one handler waits for the
\* service, a request for the same question that has arrived can be run up
\* to its own call.
C11_ConcurrentMissesOverlap ==
  \A g \in Handlers : \A h \in Handlers \ {g} :
    /\ handler[g].pc = "blocked"
    /\ handler[h].pc = "pending"
    /\ handler[h].message = handler[g].message
    => ENABLED CheckRateLimit(h)

\* at most one handler at a time is past the lookup and before the write
AtMostOneInFlight ==
  \A g \in Handlers : \A h \in Handlers \ {g} : ~(InFlight(g) /\ InFlight(h))

\* the number of keywords of the i-th context that occur in lower-cased q
KeywordsIn(i, q) ==
  Cardinality({j \in 1..Len(MATH_CONTEXTS[i].keywords) :
                 Contains(MATH_CONTEXTS[i].keywords[j], Lower(q))})

\* c is the context declared first among those with a keyword in lower-cased q
FirstDeclaredMatch(q, c) ==
  \E i \in 1..Len(MATH_CONTEXTS) :
    /\ MATH_CONTEXTS[i].context = c
    /\ KeywordsIn(i, q) > 0
    /\ \A j \in 1..(i - 1) : KeywordsIn(j, q) = 0

\* handler h has selected the context of its question
HasContext(h) == handler[h].pc \in {"post", "blocked", "received"}

\* C12: identify_math_context returns the context declared first in
\* MATH_CONTEXTS among those with at least one keyword occurring in the
\* lower-cased question, however many keywords of each context occur; this
\* is the context get_ai_response selects for the prompt.
C12_FirstDeclaredContextWins ==
  \A h \in Handlers :
    /\ handler[h].pc # "idle" /\ ~NoKeyword(handler[h].message)
         => FirstDeclaredMatch(handler[h].message,
                               identify_math_context(handler[h].message))
    /\ HasContext(h)
         => FirstDeclaredMatch(handler[h].message, handler[h].context)

\* a context is selected for a question in which a context declared later
\* has more keywords than the selected one
C12_Witness ==
  \E h \in Handlers :
    /\ HasContext(h)
    /\ \E i, j \in 1..Len(MATH_CONTEXTS) :
         /\ i < j
         /\ MATH_CONTEXTS[i].context = handler[h].context
         /\ KeywordsIn(j, handler[h].message) > KeywordsIn(i, handler[h].message)

\* C13: validate_math_question(q) is true exactly when
\* identify_math_context(q) is a context other than 'algemeen'; a question
\* with a configured keyword or symbol gets a context other than 'algemeen',
\* and the context selected for a request that builds the prompt and calls
\* the completion service is never 'algemeen'.
C13_InDomainIffClassified ==
  \A h \in Handlers :
    /\ handler[h].pc # "idle"
         => /\ validate_math_question(handler[h].message)
                 <=> identify_math_context(handler[h].message) # "algemeen"
            /\ ~NoKeyword(handler[h].message)
                 => identify_math_context(handler[h].message) # "algemeen"
    /\ HasContext(h) => handler[h].context \in Contexts \ {"algemeen"}

\* the completion service is called for a question whose only keyword
\* belongs to the context declared last
C13_Witness ==
  \E h \in Handlers :
    /\ handler[h].pc = "blocked"
    /\ handler[h].context = MATH_CONTEXTS[Len(MATH_CONTEXTS)].context
    /\ \A i \in 1..(Len(MATH_CONTEXTS) - 1) : KeywordsIn(i, handler[h].message) = 0

\* C14: for every raw completion text the output of post_process_response
\* has at most MAX_RESPONSE_LENGTH characters, the truncated output with the
\* closing marker included: every text returned as the shaped completion and
\* every value stored in the cache is that short.
C14_ShapedLengthBounded ==
  /\ \A h \in Handlers :
       ReturnsAfter(h, {"ok"}) /\ handler[h].cache_writes = 1
         => Len(handler[h].response.text) <= MAX_RESPONSE_LENGTH
  /\ \A k \in DOMAIN cache_items :
       Len(cache_items[k].value) <= MAX_RESPONSE_LENGTH

\* C15: for every raw completion text, the empty one and one that consists
\* of removed meta-phrases included, the output of post_process_response is
\* non-empty and contains a character of the emoji allow-list, on the
\* untruncated and on the truncated path; every value stored in the cache
\* is non-empty.
C15_ShapedNeverEmpty ==
  /\ \A h \in Handlers :
       /\ handler[h].pc = "received" /\ handler[h].outcome.kind = "ok"
            => LET out == post_process_response(Strip(handler[h].outcome.content))
               IN  out # <<>> /\ HasEmoji(out)
       /\ ReturnsAfter(h, {"ok"}) /\ handler[h].cache_writes = 1
            => handler[h].response.text # <<>> /\ HasEmoji(handler[h].response.text)
  /\ \A k \in DOMAIN cache_items :
       cache_items[k].value # <<>> /\ HasEmoji(cache_items[k].value)

\* an empty completion, or one that consists of a removed meta-phrase, has
\* been shaped and stored, and so has a completion that was truncated
C15_Witness ==
  \E h \in Handlers :
    /\ ReturnsAfter(h, {"ok"})
    /\ handler[h].cache_writes = 1
    /\ handler[h].message \in DOMAIN cache_items
    /\ \/ handler[h].outcome.content = <<>>
       \/ Len(handler[h].outcome.content) > MAX_RESPONSE_LENGTH

\* the message is empty or consists of whitespace
Blank(message) == Strip(message) = <<>>

\* C16: a POST /chat whose message is empty or whitespace-only is rejected
\* with HTTP 400 before it reaches the classifier; it leaves the state of
\* the rate limiter and of the cache as they were and makes no call to the
\* completion service.
C16_BlankMessageRejected ==
  \A h \in Handlers :
    handler[h].pc # "idle" /\ Blank(handler[h].message)
      => /\ handler[h].pc \in {"pending", "return"}
         /\ handler[h].pc = "return" => handler[h].response.status = 400
         /\ rl_requests = <<>>
         /\ cache_items = <<>>
         /\ handler[h].cache_reads = 0
         /\ handler[h].ext_calls = 0

\* the status codes of the error taxonomy and of the rate limiter
DocumentedStatuses == {400, 422, 429, 500, 503, 504}

\* chat() ends for handler h in this step
ChatEnds(h) == handler[h].pc = "return" /\ handler'[h].pc = "idle"

\* C17: every failure raised while POST /chat is handled leaves chat() as an
\* HTTPException with a documented status and a non-empty detail, no other
\* exception leaves it, and an HTTPException raised in get_ai_response (429
\* of the rate limiter, 503 of a transport error, 500 of a malformed
\* completion) reaches the caller with its own status and detail.
C17_FailuresLeaveAsHTTPException ==
  /\ [](\A h \in Handlers :
          handler[h].pc = "return" /\ handler[h].response.kind # "json"
            => /\ handler[h].response.kind = "HTTPException"
               /\ handler[h].response.status \in DocumentedStatuses
               /\ handler[h].response.text # <<>>)
  /\ [][ \A h \in Handlers :
           ChatEnds(h) =>
             /\ prev'.message = handler[h].message
             /\ prev'.response.kind \in {"json", "HTTPException"}
             /\ prev'.response.kind = "HTTPException"
                  => /\ prev'.response.status \in DocumentedStatuses
                     /\ prev'.response.text # <<>>
             /\ handler[h].ext_calls = 0 /\ handler[h].response.kind # "json"
                  => prev'.response = HTTPException(429, ERROR_MESSAGES.rate_limit)
             /\ ReturnsAfter(h, {"RequestException"})
                  => prev'.response = HTTPException(503, ERROR_MESSAGES.service)
             /\ ReturnsAfter(h, {"KeyError"})
                  => prev'.response = HTTPException(500, ERROR_MESSAGES.invalid)
       ]_vars

\* the second request of a client that had made MAX_REQUESTS - 1 requests
\* was rejected by the rate limiter and has left chat() with HTTP 429
C17_Witness ==
  /\ prev.response = HTTPException(429, ERROR_MESSAGES.rate_limit)
  /\ served >= 2
  /\ \E ip \in DOMAIN rl_requests : Len(rl_requests[ip]) = MAX_REQUESTS

\* the number of timestamps recorded for ip that are younger than WINDOW_SIZE
Young(requests, ip) ==
  IF ip \in DOMAIN requests
    THEN Cardinality({i \in 1..Len(requests[ip]) : requests[ip][i] < WINDOW_SIZE})
    ELSE 0

\* get_ai_response checks the rate limit for handler h in this step
LimitChecked(h) ==
  handler[h].pc = "pending" /\ handler'[h].pc \in {"validate", "return"}

\* C18: for every client, at most MAX_REQUESTS admitted requests have an
\* admission time younger than WINDOW_SIZE; a request is rejected with HTTP
\* 429 exactly when MAX_REQUESTS admissions of its own client are younger
\* than WINDOW_SIZE, and is admitted otherwise, so also again once enough of
\* them have aged out; the check changes nothing that is recorded for
\* another client.
C18_FiftyPerWindowPerClient ==
  /\ [](\A ip \in DOMAIN rl_requests : Young(rl_requests, ip) <= MAX_REQUESTS)
  /\ [][ \A h \in Handlers :
           LimitChecked(h) =>
             LET ip == handler[h].client_ip
             IN  /\ Young(rl_requests, ip) >= MAX_REQUESTS
                      <=> /\ handler'[h].pc = "return"
                          /\ handler'[h].response =
                               HTTPException(429, ERROR_MESSAGES.rate_limit)
                 /\ Young(rl_requests, ip) < MAX_REQUESTS
                      <=> handler'[h].pc = "validate"
                 /\ DOMAIN rl_requests' = DOMAIN rl_requests \cup {ip}
                 /\ \A other \in DOMAIN rl_requests \ {ip} :
                      rl_requests'[other] = rl_requests[other]
       ]_vars

\* a client is admitted while another client is at the limit, after a
\* request of that one was rejected
C18_Witness ==
  \E h \in Handlers :
    /\ handler[h].pc = "validate"
    /\ prev.response = HTTPException(429, ERROR_MESSAGES.rate_limit)
    /\ \E ip \in DOMAIN rl_requests \ {handler[h].client_ip} :
         Young(rl_requests, ip) = MAX_REQUESTS

\* a client that was rejected is admitted again after its requests aged out
C18_AdmittedAgain ==
  \E h \in Handlers :
    /\ handler[h].pc = "validate"
    /\ prev.response = HTTPException(429, ERROR_MESSAGES.rate_limit)
    /\ Young(rl_requests, handler[h].client_ip) = 1

\* the timestamps of ip that check_rate_limit keeps
Recent(requests, ip) ==
  LET InWindow(age) == age < WINDOW_SIZE
  IN  IF ip \in DOMAIN requests THEN SelectSeq(requests[ip], InWindow) ELSE <<>>

\* C19: a request that the rate limiter rejects records no timestamp for its
\* client, reads and writes no cache entry and makes no call to the
\* completion service; an admitted request records exactly one timestamp,
\* at its admission, whatever its outcome: no later step of a request
\* changes what the rate limiter has recorded.
C19_OnlyAdmittedRequestsAreRecorded ==
  /\ [](\A h \in Handlers :
          handler[h].pc = "return" /\ handler[h].response = RateLimited
            => /\ handler[h].cache_reads = 0
               /\ handler[h].cache_writes = 0
               /\ handler[h].ext_calls = 0)
  /\ [][ \A h \in Handlers :
           /\ LimitChecked(h) =>
                LET ip == handler[h].client_ip
                IN  IF handler'[h].response = RateLimited
                      THEN /\ rl_requests'[ip] = Recent(rl_requests, ip)
                           /\ cache_items' = cache_items
                      ELSE rl_requests'[ip] = Append(Recent(rl_requests, ip), 0)
           /\ handler'[h].pc # handler[h].pc /\ handler[h].pc # "pending"
                => rl_requests' = rl_requests
       ]_vars

\* a request is rejected after a request of the same client was admitted
\* and its answer stored
C19_Witness ==
  \E h \in Handlers :
    /\ handler[h].pc = "return"
    /\ handler[h].response = RateLimited
    /\ Len(rl_requests[handler[h].client_ip]) = MAX_REQUESTS
    /\ cache_items # <<>>

\* handler h returns the shaped text of a completion that passed validate_answer
ReturnsCompletion(h) ==
  /\ ReturnsAfter(h, {"ok"})
  /\ answer_valid[handler[h].message, handler[h].outcome.content, handler[h].context]

\* C20: a response returned with cached = true carries the value of the
\* latest cache.set for exactly the question of the request, made less than
\* CACHE_EXPIRATION seconds before, and the request has made no call to the
\* completion service; a response returned with cached = false for a valid
\* completion is in the cache under the question of the request when the
\* handler returns.
C20_CachedFlagMatchesCache ==
  \A h \in Handlers :
    /\ handler[h].pc = "return" /\ handler[h].response.cached
         => /\ handler[h].message \in DOMAIN last_set
            /\ handler[h].response =
                 Json(last_set[handler[h].message].value, TRUE)
            /\ last_set[handler[h].message].age < CACHE_EXPIRATION
            /\ handler[h].ext_calls = 0
    /\ ReturnsCompletion(h)
         => /\ ~handler[h].response.cached
            /\ handler[h].message \in DOMAIN cache_items
            /\ cache_items[handler[h].message] =
                 [value |-> handler[h].response.text, age |-> 0]

\* a request is served from an entry that was stored a clock step earlier,
\* after a request for another question has returned
C20_Witness ==
  \E h \in Handlers :
    /\ handler[h].pc = "return"
    /\ handler[h].response.cached
    /\ last_set[handler[h].message].age > 0
    /\ prev.message # handler[h].message
    /\ prev.message # <<>>
=============================================================================
